---- MODULE Spec2Model ----
(***************************************************************************)
(* A model of the rush rotating script: Rotator.execute (src/util/         *)
(* rotator.py), the PNMData summary class and the SheetEditor sink          *)
(* (src/util/sheets.py).                                                    *)
(*                                                                          *)
(* Instants (datetime values) are whole hours since an epoch that lies on   *)
(* a UTC midnight; a time of day is an hour 0..23.  Python values that may  *)
(* be of more than one type are tagged records, and a call that raises      *)
(* returns a record whose field "raised" names the exception.              *)
(***************************************************************************)
EXTENDS Integers, Sequences, FiniteSets, TLC

VARIABLES
    db,             \* self._db: [attendances, surveys, contacts], each a sequence of documents
    now,            \* datetime.now(), the instant of the run
    pc,             \* position in Rotator.execute (index into execute_order), or in a sequence of method calls
    contactIds,     \* execute's local contactIds
    contact,        \* the contact document a per-contact method is applied to
    attendance_res, \* what _get_most_recent_attendance / _get_attendance_info returned
    survey_res,     \* what _aggregate_survey_results returned
    pnm_res,        \* what PNMData(data_dict) returned
    pnms,           \* what _aggregate_pnm_data returned: [raised, failed, pnm_data]
    rows,           \* execute's local rows
    sheet,          \* the data sheet of the spreadsheet: [exists, cells]
    sheet_before,   \* the data sheet as it was when the run started
    sink_log,       \* the SheetEditor calls made so far, in order
    raised          \* the exception that ended the run, "" while none did

vars == <<db, now, pc, contactIds, contact, attendance_res, survey_res, pnm_res,
          pnms, rows, sheet, sheet_before, sink_log, raised>>

-----------------------------------------------------------------------------
(* Bounds of the model.                                                    *)

MaxAttendances == 2
MaxSurveys == 2
MaxContacts == 2
MaxPnms == 3

-----------------------------------------------------------------------------
(* Python values.                                                          *)

None == 0 - 1

datetime_min == 0

PyInt(i) == [kind |-> "int", n |-> i, s |-> ""]

PyStr(t) == [kind |-> "str", n |-> 0, s |-> t]

\* x >= i for an int i, as Python 3 evaluates it: a str operand raises TypeError.
PyGe(x, i) ==
    IF x.kind = "int" THEN [raised |-> "", value |-> x.n >= i]
    ELSE [raised |-> "TypeError", value |-> FALSE]

\* x == t for a str t: never raises, an int is never equal to a str.
PyEq(x, t) == x.kind = "str" /\ x.s = t

\* dict.update: the keys of e override those of d.
DictUpdate(d, e) ==
    [k \in (DOMAIN d) \cup (DOMAIN e) |-> IF k \in DOMAIN e THEN e[k] ELSE d[k]]

\* datetime.time(): the time of day of an instant.
TimeOf(t) == t % 24

\* str.lower() on the names and tags of the model.
Lower(t) ==
    CASE t = "Jane" -> "jane"
      [] t = "Golf" -> "golf"
      [] OTHER -> t

\* A float: num/den, with den = 0 for float("nan").
NaN == [num |-> 0, den |-> 0]

\* str(float): "nan" for NaN, else the quotient written out.
StrFloat(f) ==
    IF f.den = 0 THEN "nan" ELSE ToString(f.num) \o "/" \o ToString(f.den)

StrBool(b) == IF b THEN "True" ELSE "False"

StrPy(x) == IF x.kind = "int" THEN ToString(x.n) ELSE x.s

-----------------------------------------------------------------------------
(* The document store.                                                     *)

\* str(ObjectId) and ObjectId(str): an ObjectId is a number here, its string
\* form the numeral.  Attendance documents hold contactId in string form.
StrOid(oid) == ToString(oid)

ObjectId(t) == CHOOSE oid \in 0..(MaxContacts + 1) : StrOid(oid) = t

\* Bid status constants
_GREEN == "Green"

_RED == "Red"

_PRO == "Pro/Put Up"

_CON == "Con"

\* collection.find({'_id': {'$in': ids}}): a cursor over the documents whose
\* id is among ids, in the collection's order.  A cursor is the sequence of
\* the documents it has yet to yield.
FindIn(collection, ids) == SelectSeq(collection, LAMBDA d : d.id \in ids)

\* list(cursor): all the documents left, and the cursor left exhausted.
CursorList(cursor) == [items |-> cursor, cursor |-> << >>]

\* The stand-in for None where an attendance document is expected.
NoAttendance == [id |-> 0, contactId |-> "", checkInDate |-> datetime_min, checkOutDate |-> None]

-----------------------------------------------------------------------------
(* Rotator._get_most_recent_attendance and Rotator._get_attendance_info.   *)

RECURSIVE LatestLoop(_, _, _)
LatestLoop(attendances, latest_check_in, latest_attendance) ==
    IF attendances = << >> THEN latest_attendance
    ELSE LET attendance == Head(attendances)
             check_in_datetime == attendance.checkInDate
         IN IF check_in_datetime > latest_check_in
            THEN LatestLoop(Tail(attendances), check_in_datetime, attendance)
            ELSE LatestLoop(Tail(attendances), latest_check_in, latest_attendance)

\* Returns [is_none, latest_attendance, days_rushed]: is_none when the method
\* returns the bare None, else the pair it returns.
_get_most_recent_attendance(self_db, c) ==
    IF c.attendance = {} THEN
        [is_none |-> TRUE, latest_attendance |-> NoAttendance, days_rushed |-> 0]
    ELSE
        LET attendances == FindIn(self_db.attendances, c.attendance)
            listed == CursorList(attendances)
            days_rushed == Len(listed.items)
        IN [is_none |-> FALSE,
            latest_attendance |-> LatestLoop(listed.cursor, datetime_min, NoAttendance),
            days_rushed |-> days_rushed]

NoAttendanceInfo == [check_in_time |-> None, check_out_time |-> None, days_rushed |-> 0]

\* Returns [raised, include_contact, attendance_info].  Unpacking the bare
\* None, and subscripting a None latest attendance, raise TypeError.
_get_attendance_info(self_db, c) ==
    LET r == _get_most_recent_attendance(self_db, c)
        most_recent_attendance == r.latest_attendance
    IN IF r.is_none \/ most_recent_attendance = NoAttendance THEN
           [raised |-> "TypeError", include_contact |-> FALSE,
            attendance_info |-> NoAttendanceInfo]
       ELSE
           [raised |-> "", include_contact |-> TRUE,
            attendance_info |->
                [check_in_time |-> TimeOf(most_recent_attendance.checkInDate),
                 check_out_time |->
                     IF most_recent_attendance.checkOutDate # None
                     THEN TimeOf(most_recent_attendance.checkOutDate)
                     ELSE None,
                 days_rushed |-> r.days_rushed]]

-----------------------------------------------------------------------------
(* Rotator._get_num_of_attendances_from_date and                            *)
(* Rotator._aggregate_survey_results.                                       *)

\* collection.find({"contactId": contact_id})
FindByContact(collection, contact_id) ==
    SelectSeq(collection, LAMBDA d : d.contactId = contact_id)

\* The count with ">=" for ">": a check-in at the very instant counts.
RECURSIVE CountLoopFromStart(_, _, _)
CountLoopFromStart(attendances, start, count) ==
    IF attendances = << >> THEN count
    ELSE IF Head(attendances).checkInDate >= start
         THEN CountLoopFromStart(Tail(attendances), start, count + 1)
         ELSE CountLoopFromStart(Tail(attendances), start, count)

RECURSIVE CountLoop(_, _, _)
CountLoop(attendances, start, count) ==
    IF attendances = << >> THEN count
    ELSE LET check_in_datetime == Head(attendances).checkInDate
         IN IF check_in_datetime > start
            THEN CountLoop(Tail(attendances), start, count + 1)
            ELSE CountLoop(Tail(attendances), start, count)

_get_num_of_attendances_from_date(self_db, start, contact_id) ==
    CountLoop(FindByContact(self_db.attendances, contact_id), start, 0)

\* The locals of _aggregate_survey_results before its loop.
SurveyLoopStart ==
    [raised |-> "",
     num_surveys |-> 0,
     fit_rating_sum |-> 0,
     most_recent_pro |-> datetime_min,
     num_reds |-> 0, num_greens |-> 0, num_pro |-> 0, num_con |-> 0,
     brother_recs |-> {},
     interests |-> {}]

\* One pass of the loop over the surveys.  A null fitRating differs from the
\* string "NoneType", so to_decimal() is called on None: AttributeError.
SurveyLoopBody(acc, survey) ==
    IF survey.fitRating = None THEN [acc EXCEPT !.raised = "AttributeError"]
    ELSE
        [acc EXCEPT
            !.fit_rating_sum = @ + survey.fitRating,
            !.num_greens = IF survey.bidStatus = _GREEN THEN @ + 1 ELSE @,
            !.num_reds = IF survey.bidStatus = _RED THEN @ + 1 ELSE @,
            !.num_pro = IF survey.bidStatus = _PRO THEN @ + 1 ELSE @,
            !.most_recent_pro =
                IF survey.bidStatus = _PRO /\ @ < survey.createdAt
                THEN survey.createdAt ELSE @,
            !.num_con = IF survey.bidStatus = _CON THEN @ + 1 ELSE @,
            !.brother_recs =
                @ \cup {Lower(survey.brotherRecs[i]) : i \in DOMAIN survey.brotherRecs},
            !.interests =
                @ \cup {Lower(survey.interestTags[i]) : i \in DOMAIN survey.interestTags},
            !.num_surveys = @ + 1]

RECURSIVE SurveyLoop(_, _)
SurveyLoop(surveys, acc) ==
    IF surveys = << >> \/ acc.raised # "" THEN acc
    ELSE SurveyLoop(Tail(surveys), SurveyLoopBody(acc, Head(surveys)))

NoAggregates ==
    [mean_fit_rating |-> NaN,
     num_reds |-> 0, num_greens |-> 0, num_pro |-> 0, num_con |-> 0,
     num_of_days_since_bid |-> PyInt(0),
     days_rushed |-> 0,
     brother_recs |-> {},
     interests |-> {}]

\* Returns [raised, aggregates].
_aggregate_survey_results(self_db, c) ==
    LET acc == SurveyLoop(FindIn(self_db.surveys, c.surveyInfo), SurveyLoopStart)
        num_of_days_since_bid ==
            IF acc.num_pro > 0
            THEN PyInt(_get_num_of_attendances_from_date(
                           self_db, acc.most_recent_pro, StrOid(c.id)))
            ELSE PyStr("No Pros")
    IN IF acc.raised # "" THEN [raised |-> acc.raised, aggregates |-> NoAggregates]
       ELSE [raised |-> "",
             aggregates |->
                [mean_fit_rating |->
                     IF acc.num_surveys > 0
                     THEN [num |-> acc.fit_rating_sum, den |-> acc.num_surveys]
                     ELSE NaN,
                 num_reds |-> acc.num_reds,
                 num_greens |-> acc.num_greens,
                 num_pro |-> acc.num_pro,
                 num_con |-> acc.num_con,
                 num_of_days_since_bid |-> num_of_days_since_bid,
                 days_rushed |-> 0,
                 brother_recs |-> acc.brother_recs,
                 interests |-> acc.interests]]

-----------------------------------------------------------------------------
(* class PNMData.                                                           *)

NoPNM ==
    [name |-> "", check_in_time |-> None, check_out_time |-> None,
     avg_fit_rating |-> NaN,
     num_reds |-> 0, num_greens |-> 0, num_pro |-> 0, num_con |-> 0,
     brother_recs |-> {}, interests |-> {},
     num_of_days_since_bid |-> PyInt(0), days_rushed |-> 0, release |-> FALSE]

\* PNMData.__init__: returns [raised, pnm].  "x >= 2 or (x == 'No Pros' and
\* days >= 2)" evaluates x >= 2 first, which raises for the str sentinel.
PNMData(data_dict) ==
    LET ge == PyGe(data_dict.num_of_days_since_bid, 2)
    IN IF ge.raised # "" THEN [raised |-> ge.raised, pnm |-> NoPNM]
       ELSE [raised |-> "",
             pnm |->
                [name |-> data_dict.name,
                 check_in_time |-> data_dict.check_in_time,
                 check_out_time |-> data_dict.check_out_time,
                 avg_fit_rating |-> data_dict.mean_fit_rating,
                 num_reds |-> data_dict.num_reds,
                 num_greens |-> data_dict.num_greens,
                 num_pro |-> data_dict.num_pro,
                 num_con |-> data_dict.num_con,
                 brother_recs |-> data_dict.brother_recs,
                 interests |-> data_dict.interests,
                 num_of_days_since_bid |-> data_dict.num_of_days_since_bid,
                 days_rushed |-> data_dict.days_rushed,
                 release |->
                     ge.value
                     \/ (PyEq(data_dict.num_of_days_since_bid, "No Pros")
                         /\ data_dict.days_rushed >= 2)]]

est_offset == 0 - 5

\* (datetime.combine(date.today(), t) + est_offset).strftime("%I:%M %p"),
\* kept as its fields: the hour on the 12-hour clock, the minute, AM or PM.
Strftime_I_M_p(t) ==
    LET hour == (t + est_offset) % 24
    IN [I |-> ((hour + 11) % 12) + 1, M |-> 0, p |-> IF hour < 12 THEN "AM" ELSE "PM"]

\* The cell of an absent check-out time (the empty string).
NoClock == [I |-> 0, M |-> 0, p |-> ""]

\* PNMData.get_row_list; ", ".join of a set is kept as the set.
get_row_list(pnm) ==
    << pnm.name,
       Strftime_I_M_p(pnm.check_in_time),
       IF pnm.check_out_time # None THEN Strftime_I_M_p(pnm.check_out_time) ELSE NoClock,
       StrFloat(pnm.avg_fit_rating),
       ToString(pnm.num_reds),
       ToString(pnm.num_greens),
       ToString(pnm.num_pro),
       ToString(pnm.num_con),
       pnm.brother_recs,
       pnm.interests,
       StrPy(pnm.num_of_days_since_bid),
       ToString(pnm.days_rushed),
       StrBool(pnm.release) >>

-----------------------------------------------------------------------------
(* Rotator._get_contact_ids_by_todays_attendance, _aggregate_pnm_data and   *)
(* _create_pnm_rows.                                                        *)

utc_offset == 0 - 4

\* The ObjectIds of the contacts with a check-in in [start, end) of today in
\* the zone utc_offset; the bounds are converted back to UTC.  The end of the
\* day, 23:59:59.999999, excludes no whole hour of the day.
_get_contact_ids_by_todays_attendance(self_db, instant) ==
    LET today_est == instant + utc_offset
        start_of_day_est == today_est - (today_est % 24)
        start_of_day_utc == start_of_day_est - utc_offset
        end_of_day_utc == start_of_day_utc + 24
        found == SelectSeq(self_db.attendances,
                           LAMBDA d : d.checkInDate >= start_of_day_utc
                                      /\ d.checkInDate < end_of_day_utc)
    IN {ObjectId(found[i].contactId) : i \in DOMAIN found}

\* The body of the loop of _aggregate_pnm_data from the dict update on, given
\* the attendance info of the contact: returns [raised, pnm].
BuildPNM(self_db, c, attendance_info) ==
    LET agg == _aggregate_survey_results(self_db, c)
        data_dict == DictUpdate(DictUpdate([name |-> c.name], attendance_info),
                                agg.aggregates)
    IN IF agg.raised # "" THEN [raised |-> agg.raised, pnm |-> NoPNM]
       ELSE PNMData(data_dict)

\* list.sort(key=lambda pnm: pnm.check_in_time): stable, ascending.
RECURSIVE InsertByCheckIn(_, _)
InsertByCheckIn(sorted, pnm) ==
    IF sorted = << >> THEN << pnm >>
    ELSE IF pnm.check_in_time < Head(sorted).check_in_time THEN << pnm >> \o sorted
    ELSE << Head(sorted) >> \o InsertByCheckIn(Tail(sorted), pnm)

RECURSIVE SortByCheckIn(_)
SortByCheckIn(pnm_data) ==
    IF pnm_data = << >> THEN << >>
    ELSE InsertByCheckIn(SortByCheckIn(SubSeq(pnm_data, 1, Len(pnm_data) - 1)),
                         pnm_data[Len(pnm_data)])

\* The loop over the contacts found: [raised, failed, pnm_data], failed the id
\* of the contact whose aggregation raised (0 if none did).
RECURSIVE ContactLoop(_, _, _)
ContactLoop(self_db, contacts, acc) ==
    IF contacts = << >> THEN [raised |-> "", failed |-> 0, pnm_data |-> acc]
    ELSE LET c == Head(contacts)
             attendance_info == _get_attendance_info(self_db, c)
             built == BuildPNM(self_db, c, attendance_info.attendance_info)
         IN IF attendance_info.raised # "" THEN
                [raised |-> attendance_info.raised, failed |-> c.id, pnm_data |-> acc]
            ELSE IF ~attendance_info.include_contact THEN
                ContactLoop(self_db, Tail(contacts), acc)
            ELSE IF built.raised # "" THEN
                [raised |-> built.raised, failed |-> c.id, pnm_data |-> acc]
            ELSE ContactLoop(self_db, Tail(contacts), Append(acc, built.pnm))

_aggregate_pnm_data(self_db, ids) ==
    LET r == ContactLoop(self_db, FindIn(self_db.contacts, ids), << >>)
    IN IF r.raised # "" THEN r
       ELSE [r EXCEPT !.pnm_data = SortByCheckIn(r.pnm_data)]

_create_pnm_rows(pnm_data) == [i \in DOMAIN pnm_data |-> get_row_list(pnm_data[i])]

-----------------------------------------------------------------------------
(* class SheetEditor.  The data sheet is [exists, cells]: whether the       *)
(* spreadsheet has a sheet of the name, and the rows of cells it holds.     *)

NoSheet == [exists |-> FALSE, cells |-> << >>]

verify_or_create_data_sheet(sh) ==
    IF ~sh.exists THEN [exists |-> TRUE, cells |-> << >>] ELSE sh

\* Returns [raised, sheet]: _get_sheet_id raises ValueError for a missing sheet.
clear_data_sheet(sh) ==
    IF ~sh.exists THEN [raised |-> "ValueError", sheet |-> sh]
    ELSE [raised |-> "", sheet |-> [sh EXCEPT !.cells = << >>]]

\* The fixed header row, in the column order of the rows.
HeaderRow ==
    << "name", "check in time", "check out time", "avg fit rating",
       "num reds", "num greens", "num pro", "num con", "brother recs",
       "interests", "num of days since bid", "days rushed", "release" >>

\* write_header: the header row becomes the first row of the sheet.
write_header(sh) == [sh EXCEPT !.cells = << HeaderRow >>]

\* write_data_rows: the rows are written below what the sheet holds.
write_data_rows(sh, rs) == [sh EXCEPT !.cells = @ \o rs]

-----------------------------------------------------------------------------
(* The documents and values the specifications draw their inputs from.      *)

ContactNames == [i \in 1..(MaxContacts + 1) |-> "pnm" \o ToString(i)]

\* An id no attendance document and no survey document has.
DanglingAttendance == MaxAttendances + 1

DanglingSurvey == MaxSurveys + 1

\* The collections of n <= MaxAttendances attendance documents, document i
\* with id i; it checks in at instant i when byDay, else at one of checkIns,
\* and checks out an hour later when it checks out.
AttendanceColls(contactIdsOf, checkIns, byDay, checkOuts) ==
    UNION { { [i \in 1..n |-> [id |-> i,
                               contactId |-> f[i][1],
                               checkInDate |-> IF byDay THEN i ELSE f[i][2],
                               checkOutDate |->
                                   IF f[i][3] THEN (IF byDay THEN i ELSE f[i][2]) + 1
                                   ELSE None]]
              : f \in [1..n -> contactIdsOf \X checkIns \X checkOuts] }
            : n \in 0..MaxAttendances }

\* The collections of n <= MaxSurveys survey documents, document i with id i.
SurveyColls(ratings, instants) ==
    UNION { { [i \in 1..n |-> [id |-> i,
                               fitRating |-> f[i][1],
                               bidStatus |-> f[i][2],
                               brotherRecs |-> IF i % 2 = 1 THEN << "Jane" >> ELSE << "jane" >>,
                               interestTags |-> << "Golf" >>,
                               createdAt |-> f[i][3]]]
              : f \in [1..n -> ratings \X {_GREEN, _RED, _PRO, _CON} \X instants] }
            : n \in 0..MaxSurveys }

\* The ids of the attendance documents of a contact.
OwnAttendance(attendances, oid) ==
    {attendances[i].id : i \in {j \in DOMAIN attendances : attendances[j].contactId = StrOid(oid)}}

ContactDoc(oid, surveyInfo, attendance) ==
    [id |-> oid, name |-> ContactNames[oid], surveyInfo |-> surveyInfo, attendance |-> attendance]

NoContact == ContactDoc(MaxContacts + 1, {}, {})

\* The attendance reference lists a contact document may hold: empty, its own
\* attendance documents, and either with a reference that resolves to nothing.
AttendanceRefs(attendances, oid) ==
    { {}, {DanglingAttendance},
      OwnAttendance(attendances, oid),
      OwnAttendance(attendances, oid) \cup {DanglingAttendance} }

\* The collections of n <= MaxContacts contact documents over the attendances.
ContactColls(attendances) ==
    UNION { { [i \in 1..n |-> ContactDoc(i, {1, DanglingSurvey}, f[i])]
              : f \in { g \in [1..n -> SUBSET (1..DanglingAttendance)] :
                          \A i \in 1..n : g[i] \in AttendanceRefs(attendances, i) } }
            : n \in 0..MaxContacts }

ProSurvey ==
    [id |-> 1, fitRating |-> 1, bidStatus |-> _PRO, brotherRecs |-> << "Jane" >>,
     interestTags |-> << "Golf" >>, createdAt |-> 1]

\* A row of an earlier run.
StaleRow ==
    get_row_list([NoPNM EXCEPT !.name = "stale", !.check_in_time = 15])

NoAttendanceRes ==
    [is_none |-> FALSE, latest_attendance |-> NoAttendance, days_rushed |-> 0,
     raised |-> "", include_contact |-> FALSE, attendance_info |-> NoAttendanceInfo]

NoSurveyRes == [raised |-> "", aggregates |-> NoAggregates]

NoPnmRes == [raised |-> "", pnm |-> NoPNM]

NoPnms == [raised |-> "", failed |-> 0, pnm_data |-> << >>]

-----------------------------------------------------------------------------
(* Rotator.execute, one action per statement.                               *)

\* execute with the sheet made ready before the store is read.
execute_order_sheet_first ==
    << "verify_or_create", "clear", "get_contact_ids", "aggregate", "create_rows",
       "write_header", "write_data_rows" >>

execute_order ==
    << "get_contact_ids", "aggregate", "create_rows",
       "verify_or_create", "clear", "write_header", "write_data_rows" >>

Running(step) ==
    /\ raised = ""
    /\ pc \in DOMAIN execute_order
    /\ execute_order[pc] = step

Done == raised = "" /\ pc = Len(execute_order) + 1

Init ==
    /\ \E attendances \in AttendanceColls({StrOid(i) : i \in 1..MaxContacts},
                                          {20, 30}, FALSE, {FALSE}) :
         \E contacts \in ContactColls(attendances) :
            db = [attendances |-> attendances, surveys |-> << ProSurvey >>,
                  contacts |-> contacts]
    /\ now \in {40, 60}
    /\ sheet \in {NoSheet, [exists |-> TRUE, cells |-> << HeaderRow, StaleRow >>]}
    /\ sheet_before = sheet
    /\ pc = 1
    /\ contactIds = {}
    /\ contact = NoContact
    /\ attendance_res = NoAttendanceRes
    /\ survey_res = NoSurveyRes
    /\ pnm_res = NoPnmRes
    /\ pnms = NoPnms
    /\ rows = << >>
    /\ sink_log = << >>
    /\ raised = ""

GetContactIds ==
    /\ Running("get_contact_ids")
    /\ contactIds' = _get_contact_ids_by_todays_attendance(db, now)
    /\ pc' = pc + 1
    /\ UNCHANGED <<db, now, contact, attendance_res, survey_res, pnm_res, pnms, rows,
                   sheet, sheet_before, sink_log, raised>>

AggregatePnmData ==
    /\ Running("aggregate")
    /\ pnms' = _aggregate_pnm_data(db, contactIds)
    /\ raised' = pnms'.raised
    /\ pc' = IF pnms'.raised = "" THEN pc + 1 ELSE pc
    /\ UNCHANGED <<db, now, contactIds, contact, attendance_res, survey_res, pnm_res,
                   rows, sheet, sheet_before, sink_log>>

CreatePnmRows ==
    /\ Running("create_rows")
    /\ rows' = _create_pnm_rows(pnms.pnm_data)
    /\ pc' = pc + 1
    /\ UNCHANGED <<db, now, contactIds, contact, attendance_res, survey_res, pnm_res,
                   pnms, sheet, sheet_before, sink_log, raised>>

VerifyOrCreateDataSheet ==
    /\ Running("verify_or_create")
    /\ sheet' = verify_or_create_data_sheet(sheet)
    /\ sink_log' = Append(sink_log, "verify_or_create_data_sheet")
    /\ pc' = pc + 1
    /\ UNCHANGED <<db, now, contactIds, contact, attendance_res, survey_res, pnm_res,
                   pnms, rows, sheet_before, raised>>

ClearDataSheet ==
    /\ Running("clear")
    /\ sheet' = clear_data_sheet(sheet).sheet
    /\ sink_log' = Append(sink_log, "clear_data_sheet")
    /\ raised' = clear_data_sheet(sheet).raised
    /\ pc' = IF raised' = "" THEN pc + 1 ELSE pc
    /\ UNCHANGED <<db, now, contactIds, contact, attendance_res, survey_res, pnm_res,
                   pnms, rows, sheet_before>>

WriteHeader ==
    /\ Running("write_header")
    /\ sheet' = write_header(sheet)
    /\ sink_log' = Append(sink_log, "write_header")
    /\ pc' = pc + 1
    /\ UNCHANGED <<db, now, contactIds, contact, attendance_res, survey_res, pnm_res,
                   pnms, rows, sheet_before, raised>>

WriteDataRows ==
    /\ Running("write_data_rows")
    /\ sheet' = write_data_rows(sheet, rows)
    /\ sink_log' = Append(sink_log, "write_data_rows")
    /\ pc' = pc + 1
    /\ UNCHANGED <<db, now, contactIds, contact, attendance_res, survey_res, pnm_res,
                   pnms, rows, sheet_before, raised>>

Next ==
    \/ GetContactIds
    \/ AggregatePnmData
    \/ CreatePnmRows
    \/ VerifyOrCreateDataSheet
    \/ ClearDataSheet
    \/ WriteHeader
    \/ WriteDataRows

Spec == Init /\ [][Next]_vars

-----------------------------------------------------------------------------
(* The per-contact methods applied to one contact document, contact 1 of a  *)
(* store that also holds the documents of a contact 2.                      *)

\* The attendance info handed to the loop body for a contact: the time of
\* day of its latest resolved check-in and the number of resolved documents.
UnitAttendanceInfo(self_db, c) ==
    LET found == FindIn(self_db.attendances, c.attendance)
        latest == IF found = << >> THEN datetime_min
                  ELSE CHOOSE t \in {found[i].checkInDate : i \in DOMAIN found} :
                          \A i \in DOMAIN found : found[i].checkInDate <= t
    IN [check_in_time |-> TimeOf(latest), check_out_time |-> None,
        days_rushed |-> Len(found)]

InitUnit(attendances, surveys, c) ==
    /\ db = [attendances |-> attendances, surveys |-> surveys, contacts |-> << c >>]
    /\ contact = c
    /\ now = 40
    /\ pc = "start"
    /\ contactIds = {}
    /\ attendance_res =
          [NoAttendanceRes EXCEPT !.attendance_info = UnitAttendanceInfo(db, c)]
    /\ survey_res = NoSurveyRes
    /\ pnm_res = NoPnmRes
    /\ pnms = NoPnms
    /\ rows = << >>
    /\ sheet = NoSheet
    /\ sheet_before = NoSheet
    /\ sink_log = << >>
    /\ raised = ""

InitAttendance ==
    \E attendances \in AttendanceColls({StrOid(1), StrOid(2)}, {20, 30}, FALSE, BOOLEAN) :
      \E refs \in SUBSET (1..DanglingAttendance) :
        InitUnit(attendances, << >>, ContactDoc(1, {}, refs))

UnitGetMostRecentAttendance ==
    /\ pc = "start"
    /\ LET r == _get_most_recent_attendance(db, contact)
       IN attendance_res' = [attendance_res EXCEPT
                                !.is_none = r.is_none,
                                !.latest_attendance = r.latest_attendance,
                                !.days_rushed = r.days_rushed]
    /\ pc' = "recent"
    /\ UNCHANGED <<db, now, contactIds, contact, survey_res, pnm_res, pnms, rows,
                   sheet, sheet_before, sink_log, raised>>

UnitGetAttendanceInfo ==
    /\ pc = "recent"
    /\ LET r == _get_attendance_info(db, contact)
       IN /\ attendance_res' = [attendance_res EXCEPT
                                   !.raised = r.raised,
                                   !.include_contact = r.include_contact,
                                   !.attendance_info = r.attendance_info]
          /\ raised' = r.raised
    /\ pc' = "info"
    /\ UNCHANGED <<db, now, contactIds, contact, survey_res, pnm_res, pnms, rows,
                   sheet, sheet_before, sink_log>>

NextAttendance == UnitGetMostRecentAttendance \/ UnitGetAttendanceInfo

SpecAttendance == InitAttendance /\ [][NextAttendance]_vars

\* The survey reference lists of the contact under test: every id, or every
\* id but that of the first survey; both hold an id that resolves to nothing.
SurveyRefs == { 1..DanglingSurvey, 2..DanglingSurvey }

InitSurvey ==
    \E attendances \in AttendanceColls({StrOid(1), StrOid(2)}, {0}, TRUE, {FALSE}) :
      \E surveys \in SurveyColls({1}, 0..MaxAttendances) :
        \E refs \in SurveyRefs :
          InitUnit(attendances, surveys,
                   ContactDoc(1, refs, OwnAttendance(attendances, 1)))

InitRating ==
    \E attendances \in AttendanceColls({StrOid(1)}, {0}, TRUE, {FALSE}) :
      \E surveys \in SurveyColls({None, 1, 2}, {0}) :
        \E refs \in SurveyRefs :
          InitUnit(attendances, surveys,
                   ContactDoc(1, refs, OwnAttendance(attendances, 1)))

UnitAggregateSurveyResults ==
    /\ pc = "start"
    /\ survey_res' = _aggregate_survey_results(db, contact)
    /\ raised' = survey_res'.raised
    /\ pc' = "aggregated"
    /\ UNCHANGED <<db, now, contactIds, contact, attendance_res, pnm_res, pnms, rows,
                   sheet, sheet_before, sink_log>>

UnitPNMData ==
    /\ pc = "aggregated"
    /\ raised = ""
    /\ pnm_res' = BuildPNM(db, contact, attendance_res.attendance_info)
    /\ raised' = pnm_res'.raised
    /\ pc' = "built"
    /\ UNCHANGED <<db, now, contactIds, contact, attendance_res, survey_res, pnms, rows,
                   sheet, sheet_before, sink_log>>

UnitGetRowList ==
    /\ pc = "built"
    /\ raised = ""
    /\ rows' = << get_row_list(pnm_res.pnm) >>
    /\ pc' = "row"
    /\ UNCHANGED <<db, now, contactIds, contact, attendance_res, survey_res, pnm_res,
                   pnms, sheet, sheet_before, sink_log, raised>>

NextSurvey == UnitAggregateSurveyResults \/ UnitPNMData \/ UnitGetRowList

SpecSurvey == InitSurvey /\ [][NextSurvey]_vars

SpecRating == InitRating /\ [][NextSurvey]_vars

-----------------------------------------------------------------------------
(* The sort of _aggregate_pnm_data and _create_pnm_rows applied to a list   *)
(* of summaries.                                                            *)

\* Times of day of a check-in, in UTC as the store holds it.
CheckInTimes == {3, 6, 14, 23}

InitRows ==
    /\ \E n \in 0..MaxPnms :
         \E f \in [1..n -> CheckInTimes] :
            pnms = [NoPnms EXCEPT !.pnm_data =
                       [i \in 1..n |-> [NoPNM EXCEPT !.name = ContactNames[1],
                                                     !.check_in_time = f[i]]]]
    /\ db = [attendances |-> << >>, surveys |-> << >>, contacts |-> << >>]
    /\ contact = NoContact
    /\ now = 40
    /\ pc = "start"
    /\ contactIds = {}
    /\ attendance_res = NoAttendanceRes
    /\ survey_res = NoSurveyRes
    /\ pnm_res = NoPnmRes
    /\ rows = << >>
    /\ sheet = NoSheet
    /\ sheet_before = NoSheet
    /\ sink_log = << >>
    /\ raised = ""

UnitSortPnmData ==
    /\ pc = "start"
    /\ pnms' = [pnms EXCEPT !.pnm_data = SortByCheckIn(@)]
    /\ pc' = "sorted"
    /\ UNCHANGED <<db, now, contactIds, contact, attendance_res, survey_res, pnm_res,
                   rows, sheet, sheet_before, sink_log, raised>>

UnitCreatePnmRows ==
    /\ pc = "sorted"
    /\ rows' = _create_pnm_rows(pnms.pnm_data)
    /\ pc' = "rows"
    /\ UNCHANGED <<db, now, contactIds, contact, attendance_res, survey_res, pnm_res,
                   pnms, sheet, sheet_before, sink_log, raised>>

NextRows == UnitSortPnmData \/ UnitCreatePnmRows

SpecRows == InitRows /\ [][NextRows]_vars

-----------------------------------------------------------------------------
(* The properties.                                                          *)

\* The documents of a collection that a reference list resolves to.
Resolved(collection, ids) == {collection[i] : i \in {j \in DOMAIN collection : collection[j].id \in ids}}

ContactById(oid) == CHOOSE c \in {db.contacts[i] : i \in DOMAIN db.contacts} : c.id = oid

AttendancesOf(c) == Resolved(db.attendances, c.attendance)

SurveysOf(c) == Resolved(db.surveys, c.surveyInfo)

MaxOf(S) == CHOOSE x \in S : \A y \in S : y <= x

RECURSIVE SumOf(_)
SumOf(S) == IF S = {} THEN 0 ELSE LET x == CHOOSE y \in S : TRUE IN x[2] + SumOf(S \ {x})

Built == pc \in {"built", "row"}

\* C1: the release flag of every summary is true exactly when
\* num_of_days_since_bid is a number >= 2, or it is "No Pros" and
\* days_rushed >= 2; and every contact handed to PNMData gets a summary, the
\* contact without a Pro survey too.
C1_ReleaseRule ==
    Built =>
        /\ pnm_res.raised = ""
        /\ LET n == survey_res.aggregates.num_of_days_since_bid
           IN pnm_res.pnm.release =
                 ( (n.kind = "int" /\ n.n >= 2)
                   \/ (PyEq(n, "No Pros") /\ pnm_res.pnm.days_rushed >= 2) )

\* C2: the days_rushed of a summary, and of its row, is the number of
\* attendance documents the contact references that exist.
C2_DaysRushedIsCount ==
    /\ (Built /\ pnm_res.raised = "") =>
           pnm_res.pnm.days_rushed = Cardinality(AttendancesOf(contact))
    /\ pc = "row" => rows[1][12] = ToString(Cardinality(AttendancesOf(contact)))

\* What C3 says num_of_days_since_bid is for the contact under test.
ExpectedDaysSinceBid ==
    LET pros == {sv \in SurveysOf(contact) : sv.bidStatus = _PRO}
        last == MaxOf({sv.createdAt : sv \in pros})
    IN IF pros = {} THEN PyStr("No Pros")
       ELSE PyInt(Cardinality({i \in DOMAIN db.attendances :
                                 /\ db.attendances[i].contactId = StrOid(contact.id)
                                 /\ db.attendances[i].checkInDate > last}))

C7_MeanFitRating ==
    /\ pc # "start" =>
           /\ survey_res.raised = ""
           /\ LET found == SurveysOf(contact)
                  mean == survey_res.aggregates.mean_fit_rating
              IN IF found = {} THEN mean = NaN
                 ELSE /\ mean.den = Cardinality(found)
                      /\ mean.num = SumOf({<<sv.id, sv.fitRating>> :
                                             sv \in {x \in found : x.fitRating # None}})
    /\ (pc = "row" /\ SurveysOf(contact) = {}) => rows[1][4] = "nan"

\* C9: for a contact with a resolvable attendance document,
\* _get_most_recent_attendance returns the fetched document of the greatest
\* checkInDate, and the attendance info takes its check-in and check-out
\* time of day from that document (None without a checkOutDate).
C9_MostRecentAttendance ==
    (pc # "start" /\ AttendancesOf(contact) # {}) =>
        LET latest == attendance_res.latest_attendance
        IN /\ latest \in AttendancesOf(contact)
           /\ \A a \in AttendancesOf(contact) : a.checkInDate <= latest.checkInDate
           /\ pc = "info" =>
                 /\ attendance_res.raised = ""
                 /\ attendance_res.attendance_info.check_in_time = TimeOf(latest.checkInDate)
                 /\ attendance_res.attendance_info.check_out_time =
                       IF latest.checkOutDate = None THEN None
                       ELSE TimeOf(latest.checkOutDate)

\* The hour of the day a check-in cell of a row shows.
ShownHour(cell) == (cell.I % 12) + (IF cell.p = "PM" THEN 12 ELSE 0)

\* C6: the rows are non-decreasing in the check-in time they show.
C6_RowsNonDecreasing ==
    pc = "rows" =>
        \A i \in 1..(Len(rows) - 1) :
            ShownHour(rows[i][2]) * 60 + rows[i][2].M
                <= ShownHour(rows[i + 1][2]) * 60 + rows[i + 1][2].M

\* The contacts matched by today's attendance.
Matched ==
    {c \in {db.contacts[i] : i \in DOMAIN db.contacts} :
        c.id \in _get_contact_ids_by_todays_attendance(db, now)}

Aggregated == pc \in DOMAIN execute_order /\ execute_order[pc] # "get_contact_ids"

\* C4: a matched contact without attendance documents (no reference, or none
\* that resolves) is left out and is no error: no run ends in the
\* aggregation of such a contact.
C4_NoAttendanceIsNoError ==
    ~ ( /\ raised # ""
        /\ pnms.failed # 0
        /\ AttendancesOf(ContactById(pnms.failed)) = {} )

\* C5: a reference that resolves to no document is skipped: when every
\* matched contact has an attendance document, the aggregation does not
\* raise, whatever references of theirs resolve to nothing.
C5_DanglingReferenceSkipped ==
    ( /\ Aggregated \/ Done
      /\ \A c \in Matched : AttendancesOf(c) # {}
      /\ \E c \in Matched : DanglingAttendance \in c.attendance \/ DanglingSurvey \in c.surveyInfo )
    => raised = ""

Ended == raised # "" \/ Done

\* C8: a run makes the four sheet calls in the order verify, clear, header,
\* rows, each once, and leaves the sheet holding the header row and one row
\* for each matched contact with an attendance document.
C8_SinkSequence ==
    Ended =>
        /\ sink_log = << "verify_or_create_data_sheet", "clear_data_sheet",
                         "write_header", "write_data_rows" >>
        /\ sheet.exists
        /\ Len(sheet.cells) = 1 + Cardinality({c \in Matched : AttendancesOf(c) # {}})
        /\ sheet.cells[1] = HeaderRow

\* The steps of execute that read the store or build the rows.
PreSink == {"get_contact_ids", "aggregate", "create_rows"}

\* C10: while a step that reads the store, aggregates or builds the rows has
\* not completed (the run is before it, in it, or has been ended by it), no
\* sheet call has been made and the sheet is as the run found it.
C10_SheetUntouchedBeforeRows ==
    (\E i \in DOMAIN execute_order : i >= pc /\ execute_order[i] \in PreSink)
        => (sink_log = << >> /\ sheet = sheet_before)

\* A run ended by the aggregation, the rows of an earlier run still in the sheet.
C10_Witness ==
    /\ raised # ""
    /\ execute_order[pc] = "aggregate"
    /\ sheet.exists
    /\ sheet.cells = << HeaderRow, StaleRow >>
    /\ sink_log = << >>

====
